---------------------------- MODULE Spec2Model ----------------------------
(***************************************************************************)
(* Student Health & Wellness Tracker (src/script_Version2.js): the entry   *)
(* store kept in localStorage, the form handlers that validate and append  *)
(* entries, the clear and export handlers, and the functions that derive   *)
(* charts, the summary and the tips from the stored logs.                  *)
(*                                                                         *)
(* Numbers.  A JavaScript number n is represented by the integer 10 * n    *)
(* (tenths).  Every raw value the model feeds to a form has at most one    *)
(* fractional digit, and that digit is 0 or 5, so every sum and comparison *)
(* the script makes is exact in IEEE doubles as well.  The result of       *)
(* parseFloat / parseInt is a record [nan, v]: nan marks NaN.              *)
(*                                                                         *)
(* Strings a form field holds are sequences of one-character strings, so   *)
(* that parseFloat and parseInt can be computed the way the engine does.  *)
(***************************************************************************)
EXTENDS Integers, Sequences, FiniteSets, TLC

(* ------------------------------------------------------------------ *)
(* Utility helpers                                                      *)
(* ------------------------------------------------------------------ *)

FOCUS == "shwt_focus_entries"
SKIN == "shwt_skin_entries"
MOOD == "shwt_mood_entries"
LS_KEYS == {FOCUS, SKIN, MOOD}

Digits == {"0", "1", "2", "3", "4", "5", "6", "7", "8", "9"}

DigitVal(c) ==
  CASE c = "0" -> 0 [] c = "1" -> 1 [] c = "2" -> 2 [] c = "3" -> 3
    [] c = "4" -> 4 [] c = "5" -> 5 [] c = "6" -> 6 [] c = "7" -> 7
    [] c = "8" -> 8 [] c = "9" -> 9

\* Number of leading decimal digits of s.
RECURSIVE DigitPrefix(_)
DigitPrefix(s) ==
  IF s = <<>> \/ Head(s) \notin Digits THEN 0 ELSE 1 + DigitPrefix(Tail(s))

\* Value of the first n characters of s read as a decimal numeral.
RECURSIVE DigitsValue(_, _)
DigitsValue(s, n) ==
  IF n = 0 THEN 0 ELSE 10 * DigitsValue(s, n - 1) + DigitVal(s[n])

NaN == [nan |-> TRUE, v |-> 0]
Num(tenths) == [nan |-> FALSE, v |-> tenths]
isNaN(x) == x.nan

HasSign(s) == s # <<>> /\ Head(s) \in {"-", "+"}
Unsigned(s) == IF HasSign(s) THEN Tail(s) ELSE s
SignOf(s) == IF s # <<>> /\ Head(s) = "-" THEN 0 - 1 ELSE 1

\* parseFloat: the longest prefix that is a decimal literal (sign, digits,
\* an optional fraction); NaN when there is none.  One fractional digit is
\* kept (the resolution of the representation).
parseFloat(s) ==
  LET u == Unsigned(s)
      n == DigitPrefix(u)
      rest == SubSeq(u, n + 1, Len(u))
      m == IF rest # <<>> /\ Head(rest) = "." THEN DigitPrefix(Tail(rest)) ELSE 0
      frac == IF m > 0 THEN DigitVal(rest[2]) ELSE 0
  IN IF n = 0 /\ m = 0 THEN NaN
     ELSE Num(SignOf(s) * (10 * DigitsValue(u, n) + frac))

\* parseInt(s, 10): sign and leading digits, the rest ignored; NaN when
\* there is no digit.
parseInt(s) ==
  LET u == Unsigned(s)
      n == DigitPrefix(u)
  IN IF n = 0 THEN NaN ELSE Num(SignOf(s) * 10 * DigitsValue(u, n))

(* ------------------------------------------------------------------ *)
(* localStorage and JSON                                                *)
(*                                                                      *)
(* An item of localStorage is [kind, items]: kind "absent" (getItem     *)
(* gives null), "empty" (the empty string), "garbage" (text JSON.parse  *)
(* rejects), "object" and "null" (JSON texts of a value that is not an  *)
(* array) or "array" (the JSON text of an array, whose elements items   *)
(* holds).  A JavaScript value read back is [type, items] with type     *)
(* "array", "object" or "null".  The numbers of an admitted entry are   *)
(* finite and JSON writes and reads them back unchanged.                *)
(* ------------------------------------------------------------------ *)

Absent == [kind |-> "absent", items |-> <<>>]
Array(items) == [type |-> "array", items |-> items]
IsArray(val) == val.type = "array"

JSONstringify(val) == [kind |-> val.type, items |-> val.items]

\* JSON.parse(text); threw when the text is not JSON.
JSONparse(item) ==
  IF item.kind = "garbage"
    THEN [threw |-> TRUE, val |-> Array(<<>>)]
    ELSE [threw |-> FALSE, val |-> [type |-> item.kind, items |-> item.items]]

\* lp(key): the safe parse helper.
lp(store, key) ==
  LET v == store[key]
  IN IF v.kind \in {"absent", "empty"} THEN Array(<<>>)
     ELSE IF JSONparse(v).threw THEN Array(<<>>)
     ELSE JSONparse(v).val

lsSet(store, key, data) == [store EXCEPT ![key] = JSONstringify(data)]

\* Mutant: localStorage.clear() in place of removeItem(key).
removeItem_clearAll(store, key) == [k \in DOMAIN store |-> Absent]

removeItem(store, key) == [store EXCEPT ![key] = Absent]


(* ------------------------------------------------------------------ *)
(* The page: what a handler reads and writes.                           *)
(*                                                                      *)
(* A handler is an operator from a world to a world.  A world is        *)
(* [store, errors, charts, tips, insights, threw]: localStorage, the    *)
(* text of the ten error elements, the data handed to the seven charts, *)
(* the content of the three tips elements, the sentences of the         *)
(* summary-insights element, and whether a TypeError was thrown and not *)
(* caught (what was assigned before the throw stays assigned, and the   *)
(* statements after it do not run).                                     *)
(* ------------------------------------------------------------------ *)

Throw(w) == [w EXCEPT !.threw = TRUE]

ErrorIds ==
  {"focus-sleep-error", "focus-screen-error", "focus-exercise-error",
   "focus-rating-error", "skin-sleep-error", "skin-water-error",
   "skin-stress-error", "skin-condition-error", "mood-date-error",
   "mood-value-error"}

showError(w, id, msg) == [w EXCEPT !.errors[id] = msg]

RECURSIVE SumSeq(_)
SumSeq(s) == IF s = <<>> THEN 0 ELSE Head(s) + SumSeq(Tail(s))

\* (sum / n).toFixed(1) and (sum / n).toFixed(2) for n > 0: the quotient of
\* two numbers in tenths, rounded half up, in tenths and in hundredths.
toFixed1(sum, n) == (2 * sum + n) \div (2 * n)
toFixed2(sum, n) == (20 * sum + n) \div (2 * n)

(* Chart.js setup *)
setupCharts ==
  [sleepFocus |-> <<>>, screenFocus |-> <<>>,
   waterSkin |-> <<>>, stressSkin |-> <<>>,
   moodTrend |-> [happy |-> <<>>, calm |-> <<>>, stressed |-> <<>>, tired |-> <<>>],
   summarySleep |-> [labels |-> <<>>, data |-> <<>>],
   summarySkin |-> <<0, 0, 0>>]

(* Summary: average focus by sleep range, skin distribution, insights *)

BucketDefs ==
  << [label |-> "<=6", min |-> 0 - 10, max |-> 60],
     [label |-> "6-7", min |-> 60, max |-> 70],
     [label |-> "7-9", min |-> 70, max |-> 90],
     [label |-> "9+", min |-> 90, max |-> 1000] >>

\* Mutant: the lower bound of a bucket is taken as closed too.
InBucket_closedBelow(e, b) == e.sleep >= b.min /\ e.sleep <= b.max

InBucket(e, b) == e.sleep > b.min /\ e.sleep <= b.max

\* The buckets after focusEntries.forEach(...): each with its sum and n.
SleepBuckets(focusEntries) ==
  [k \in 1..4 |->
     LET b == BucketDefs[k]
         members == SelectSeq(focusEntries, LAMBDA e : InBucket(e, b))
     IN [label |-> b.label, min |-> b.min, max |-> b.max,
         sum |-> SumSeq([i \in 1..Len(members) |-> members[i].rating]),
         n |-> Len(members)]]

BucketData(buckets) ==
  [k \in 1..4 |-> IF buckets[k].n # 0
                    THEN toFixed2(buckets[k].sum, buckets[k].n) ELSE 0]

SkinConditions == <<"clear", "dry", "irritated">>

SkinCounts(skinEntries) ==
  [k \in 1..3 |->
     Cardinality({i \in 1..Len(skinEntries) : skinEntries[i].condition = SkinConditions[k]})]

\* Index of the first largest element: what a stable descending sort puts
\* first.
FirstMax(counts) ==
  CHOOSE k \in 1..Len(counts) :
    /\ \A j \in 1..Len(counts) : counts[j] <= counts[k]
    /\ \A j \in 1..(k - 1) : counts[j] < counts[k]

Sentence(msg, num, name) == [msg |-> msg, num |-> num, name |-> name]

INSIGHT_FOCUS_7TO9 == "Students sleeping 7-9 hours show an average focus of {num} out of 10"
INSIGHT_FOCUS_MORE == "Add a few more focus entries to see stronger sleep->focus patterns."
INSIGHT_FOCUS_NONE == "No focus data yet"
INSIGHT_SKIN_COMMON == "Most recent skin entries show {name} as common."
INSIGHT_SKIN_NONE == "No skin data yet"
INSIGHT_MOOD_TOP == "Your most recorded mood is {name}."
INSIGHT_MOOD_NONE == "No mood data yet"

FocusInsight(focusEntries) ==
  LET buckets == SleepBuckets(focusEntries)
      total == SumSeq([k \in 1..4 |-> buckets[k].n])
  IN IF buckets[3].n # 0 /\ total >= 3
       THEN Sentence(INSIGHT_FOCUS_7TO9, toFixed1(buckets[3].sum, buckets[3].n), "")
     ELSE IF Len(focusEntries) > 0 THEN Sentence(INSIGHT_FOCUS_MORE, 0, "")
     ELSE Sentence(INSIGHT_FOCUS_NONE, 0, "")

SkinInsight(skinEntries) ==
  IF Len(skinEntries) > 0
    THEN Sentence(INSIGHT_SKIN_COMMON, 0,
                  SkinConditions[FirstMax(SkinCounts(skinEntries))])
    ELSE Sentence(INSIGHT_SKIN_NONE, 0, "")

\* The keys of moodCounts in the order reduce creates them: each mood at
\* its first occurrence.
RECURSIVE MoodKeys(_)
MoodKeys(moodEntries) ==
  IF moodEntries = <<>> THEN <<>>
  ELSE LET front == SubSeq(moodEntries, 1, Len(moodEntries) - 1)
           m == moodEntries[Len(moodEntries)].mood
           keys == MoodKeys(front)
       IN IF \E i \in 1..Len(keys) : keys[i] = m THEN keys ELSE Append(keys, m)

MoodCount(moodEntries, m) ==
  Cardinality({i \in 1..Len(moodEntries) : moodEntries[i].mood = m})

topMood(moodEntries) ==
  LET keys == MoodKeys(moodEntries)
  IN keys[FirstMax([i \in 1..Len(keys) |-> MoodCount(moodEntries, keys[i])])]

\* The mood sentence: moodEntries.length > 0 is false for a value without
\* a length, and reading the length of null throws.
MoodInsight(moodEntries) ==
  IF IsArray(moodEntries) /\ Len(moodEntries.items) > 0
    THEN Sentence(INSIGHT_MOOD_TOP, 0, topMood(moodEntries.items))
    ELSE Sentence(INSIGHT_MOOD_NONE, 0, "")

updateSummary(w) ==
  LET focusEntries == lp(w.store, FOCUS)
      skinEntries == lp(w.store, SKIN)
      moodEntries == lp(w.store, MOOD)
      buckets == SleepBuckets(focusEntries.items)
      w1 == [w EXCEPT !.charts.summarySleep =
               [labels |-> [k \in 1..4 |-> buckets[k].label],
                data |-> BucketData(buckets)]]
      w2 == [w1 EXCEPT !.charts.summarySkin = SkinCounts(skinEntries.items)]
  IN IF ~IsArray(focusEntries) THEN Throw(w)
     ELSE IF ~IsArray(skinEntries) THEN Throw(w1)
     ELSE IF moodEntries.type = "null" THEN Throw(w2)
     ELSE [w2 EXCEPT !.insights =
             << FocusInsight(focusEntries.items), SkinInsight(skinEntries.items),
                MoodInsight(moodEntries) >>]

(* Charts *)

\* Mutant: the scatter charts are redrawn without the summary.
updateFocusCharts_noSummary(w, entries) ==
  IF ~IsArray(entries) THEN Throw(w)
  ELSE [w EXCEPT !.charts.sleepFocus =
                   [i \in 1..Len(entries.items) |->
                      [x |-> entries.items[i].sleep, y |-> entries.items[i].rating]],
                 !.charts.screenFocus =
                   [i \in 1..Len(entries.items) |->
                      [x |-> entries.items[i].screen, y |-> entries.items[i].rating]]]

updateFocusCharts(w, entries) ==
  IF ~IsArray(entries) THEN Throw(w)
  ELSE updateSummary(
         [w EXCEPT !.charts.sleepFocus =
                     [i \in 1..Len(entries.items) |->
                        [x |-> entries.items[i].sleep, y |-> entries.items[i].rating]],
                   !.charts.screenFocus =
                     [i \in 1..Len(entries.items) |->
                        [x |-> entries.items[i].screen, y |-> entries.items[i].rating]]])

conditionScore(cond) ==
  IF cond = "clear" THEN 30
  ELSE IF cond = "dry" THEN 20
  ELSE IF cond = "irritated" THEN 10
  ELSE 0

updateSkinCharts(w, entries) ==
  IF ~IsArray(entries) THEN Throw(w)
  ELSE updateSummary(
         [w EXCEPT !.charts.waterSkin =
                     [i \in 1..Len(entries.items) |->
                        [x |-> entries.items[i].water,
                         y |-> conditionScore(entries.items[i].condition)]],
                   !.charts.stressSkin =
                     [i \in 1..Len(entries.items) |->
                        [x |-> entries.items[i].stress,
                         y |-> conditionScore(entries.items[i].condition)]]])

\* new Date(date).getDay() for the dates the model uses (0 is Sunday).
getDay(date) ==
  CASE date = "2024-01-01" -> 1
    [] date = "2024-01-03" -> 3
    [] date = "2024-01-07" -> 0

ChartMoods == {"happy", "calm", "stressed", "tired"}

WeekdayCounts(entries, mood) ==
  [d \in 1..7 |->
     Cardinality({i \in 1..Len(entries) :
                    /\ entries[i].mood = mood
                    /\ (getDay(entries[i].date) + 6) % 7 = d - 1})]

updateMoodCharts(w, entries) ==
  IF ~IsArray(entries) THEN Throw(w)
  ELSE updateSummary(
         [w EXCEPT !.charts.moodTrend =
                     [happy |-> WeekdayCounts(entries.items, "happy"),
                      calm |-> WeekdayCounts(entries.items, "calm"),
                      stressed |-> WeekdayCounts(entries.items, "stressed"),
                      tired |-> WeekdayCounts(entries.items, "tired")]])

(* ------------------------------------------------------------------ *)
(* Tips generation                                                      *)
(*                                                                      *)
(* The content of a tips element is [text, items]: the sentence shown   *)
(* when there is no data (or "") and the <li> items of the list.        *)
(* ------------------------------------------------------------------ *)

FOCUS_NODATA == "Add focus entries to receive personalized tips. General tip: aim for 7-9 hours of sleep for better focus."
SKIN_NODATA == "Track skin and habits here. General friendly tips: drink water, protect skin from harsh scrubs, and get rest."
MOOD_NODATA == "Keep a daily mood log to spot patterns. Small routines like short walks, consistent sleep, and talking to friends can help mood."

TIP_SLEEP_OK == "Nice! Students who sleep 7-9 hours often report better focus."
TIP_SLEEP_LOW == "Try to increase sleep closer to 7-9 hours - more rest is linked with higher focus."
TIP_SLEEP_HIGH == "Sleeping too long may impact routine - aim for consistent 7-9 hours."
TIP_SCREEN == "High screen time may reduce attention - consider breaks and screen-free study time."
TIP_EXERCISE == "Short daily exercise (20-30 minutes) is linked with improved energy and focus."
TIP_ENERGY == "Low energy? Try evaluating sleep, movement, and screen breaks."

TIP_WATER_OK == "Great - good water intake supports skin hydration."
TIP_WATER_LOW == "Try increasing water intake a bit - hydration can help skin appearance."
TIP_STRESS == "Higher stress levels often link with skin flare-ups. Try small stress breaks or breathing exercises."
TIP_IRRITATED == "You have more irritated skin entries - be gentle with skincare and avoid harsh ingredients."

TIP_COPING == "You have recorded stress often. Try short breathing breaks, a quick walk, or organizing tasks into smaller steps."
TIP_TIRED == "Feeling tired regularly? Look at sleep and screen habits - small changes can help energy."
TIP_HAPPY == "Nice - you record happy moods often. Keep doing the healthy routines that support this mood."

NoData(text) == [text |-> text, items |-> <<>>]
TipList(items) == [text |-> "", items |-> items]

\* suggestions.push(msg) when cond holds.
PushIf(cond, suggestions, msg) == IF cond THEN Append(suggestions, msg) ELSE suggestions

\* Mutant: the band test looks at the newest entry, not at the average.
SleepTip_newestEntry(entries) ==
  LET newest == entries[Len(entries)].sleep
  IN IF newest >= 70 /\ newest <= 90 THEN TIP_SLEEP_OK
     ELSE IF newest < 70 THEN TIP_SLEEP_LOW
     ELSE TIP_SLEEP_HIGH

\* avgSleep: the band test of the average, sum / length against 7 and 9.
SleepTip(entries) ==
  LET sum == SumSeq([i \in 1..Len(entries) |-> entries[i].sleep])
      n == Len(entries)
  IN IF sum >= 70 * n /\ sum <= 90 * n THEN TIP_SLEEP_OK
     ELSE IF sum < 70 * n THEN TIP_SLEEP_LOW
     ELSE TIP_SLEEP_HIGH

FocusSuggestions(entries) ==
  LET n == Len(entries)
      s1 == <<SleepTip(entries)>>
      s2 == PushIf(SumSeq([i \in 1..Len(entries) |-> entries[i].screen]) > 40 * n, s1, TIP_SCREEN)
      s3 == PushIf(SumSeq([i \in 1..Len(entries) |-> entries[i].exercise]) < 200 * n, s2, TIP_EXERCISE)
  IN PushIf(SumSeq([i \in 1..Len(entries) |-> entries[i].rating]) < 60 * n, s3, TIP_ENERGY)

\* !entries is true of null; a value without a length is not of length 0,
\* and entries.reduce then throws.
updateFocusTips(w, entries) ==
  IF entries.type = "null" \/ (IsArray(entries) /\ Len(entries.items) = 0)
    THEN [w EXCEPT !.tips.focus = NoData(FOCUS_NODATA)]
  ELSE IF ~IsArray(entries) THEN Throw(w)
  ELSE [w EXCEPT !.tips.focus = TipList(FocusSuggestions(entries.items))]

\* Mutant: the water test has no else branch.
SkinSuggestions_noElse(entries) ==
  LET n == Len(entries)
      s1 == PushIf(SumSeq([i \in 1..Len(entries) |-> entries[i].water]) >= 60 * n,
                   <<>>, TIP_WATER_OK)
      s2 == PushIf(SumSeq([i \in 1..Len(entries) |-> entries[i].stress]) > 60 * n, s1, TIP_STRESS)
      countClear == Cardinality({i \in 1..n : entries[i].condition = "clear"})
      countIrritated == Cardinality({i \in 1..n : entries[i].condition = "irritated"})
  IN PushIf(countIrritated > countClear, s2, TIP_IRRITATED)

SkinSuggestions(entries) ==
  LET n == Len(entries)
      s1 == IF SumSeq([i \in 1..Len(entries) |-> entries[i].water]) >= 60 * n
              THEN <<TIP_WATER_OK>> ELSE <<TIP_WATER_LOW>>
      s2 == PushIf(SumSeq([i \in 1..Len(entries) |-> entries[i].stress]) > 60 * n, s1, TIP_STRESS)
      countClear == Cardinality({i \in 1..n : entries[i].condition = "clear"})
      countIrritated == Cardinality({i \in 1..n : entries[i].condition = "irritated"})
  IN PushIf(countIrritated > countClear, s2, TIP_IRRITATED)

updateSkinTips(w, entries) ==
  IF entries.type = "null" \/ (IsArray(entries) /\ Len(entries.items) = 0)
    THEN [w EXCEPT !.tips.skin = NoData(SKIN_NODATA)]
  ELSE IF ~IsArray(entries) THEN Throw(w)
  ELSE [w EXCEPT !.tips.skin = TipList(SkinSuggestions(entries.items))]

Max3(a, b, c) ==
  IF a >= b /\ a >= c THEN a ELSE IF b >= c THEN b ELSE c

\* Mutant: happy must strictly exceed the other counts.
HappyLeads_strict(happy, calm, stressed, tired) == happy > Max3(calm, stressed, tired)

HappyLeads(happy, calm, stressed, tired) == happy >= Max3(calm, stressed, tired)

MoodSuggestions(entries) ==
  LET happy == MoodCount(entries, "happy")
      calm == MoodCount(entries, "calm")
      stressed == MoodCount(entries, "stressed")
      tired == MoodCount(entries, "tired")
      s1 == PushIf(stressed > happy, <<>>, TIP_COPING)
      s2 == PushIf(tired > 0, s1, TIP_TIRED)
  IN PushIf(HappyLeads(happy, calm, stressed, tired), s2, TIP_HAPPY)

updateMoodTips(w, entries) ==
  IF entries.type = "null" \/ (IsArray(entries) /\ Len(entries.items) = 0)
    THEN [w EXCEPT !.tips.mood = NoData(MOOD_NODATA)]
  ELSE IF ~IsArray(entries) THEN Throw(w)
  ELSE [w EXCEPT !.tips.mood = TipList(MoodSuggestions(entries.items))]

(* ------------------------------------------------------------------ *)
(* Event handlers                                                       *)
(* ------------------------------------------------------------------ *)

\* The next statement of a handler body: it runs on w unless an exception is
\* already propagating, in which case the rest of the body is skipped.
Then(w, stmt, entries) ==
  IF w.threw THEN w
  ELSE CASE stmt = "updateFocusCharts" -> updateFocusCharts(w, entries)
         [] stmt = "updateSkinCharts" -> updateSkinCharts(w, entries)
         [] stmt = "updateMoodCharts" -> updateMoodCharts(w, entries)
         [] stmt = "updateFocusTips" -> updateFocusTips(w, entries)
         [] stmt = "updateSkinTips" -> updateSkinTips(w, entries)
         [] stmt = "updateMoodTips" -> updateMoodTips(w, entries)
         [] stmt = "updateSummary" -> updateSummary(w)

\* isNaN(x) || x < lo || x > hi
RangeBad(x, lo, hi) == isNaN(x) \/ x.v < lo \/ x.v > hi

\* Mutant: validation stops at the first failing field.
check_shortCircuit(r, bad, id, msg) ==
  IF ~r.ok THEN r
  ELSE [w |-> showError(r.w, id, IF bad THEN msg ELSE ""), ok |-> ~bad]

\* Mutant: the message is shown but ok is left true.
check_keepsOk(r, bad, id, msg) ==
  [w |-> showError(r.w, id, IF bad THEN msg ELSE ""), ok |-> r.ok]

\* One validation line: if(bad){ showError(id, msg); ok=false } else
\* showError(id, ''), on r = [w, ok].
check(r, bad, id, msg) ==
  [w |-> showError(r.w, id, IF bad THEN msg ELSE ""), ok |-> r.ok /\ ~bad]

\* Mutant: unshift in place of push.
push_unshift(entries, e) == Array(<<e>> \o entries.items)

push(entries, e) == Array(Append(entries.items, e))

validateFocus(w, sleep, screen, exercise, rating) ==
  LET r0 == [w |-> w, ok |-> TRUE]
      r1 == check(r0, RangeBad(sleep, 0, 240), "focus-sleep-error", "Enter 0-24")
      r2 == check(r1, RangeBad(screen, 0, 240), "focus-screen-error", "Enter 0-24")
      r3 == check(r2, RangeBad(exercise, 0, 6000), "focus-exercise-error", "Enter 0-600")
  IN check(r3, RangeBad(rating, 10, 100), "focus-rating-error", "Enter 1-10")

onFocusSubmit(w, form, today) ==
  LET sleep == parseFloat(form.sleep)
      screen == parseFloat(form.screen)
      exercise == parseFloat(form.exercise)
      rating == parseInt(form.rating)
      r == validateFocus(w, sleep, screen, exercise, rating)
      read == lp(r.w.store, FOCUS)
      entries == push(read, [date |-> today, sleep |-> sleep.v, screen |-> screen.v,
                             exercise |-> exercise.v, rating |-> rating.v])
      w1 == [r.w EXCEPT !.store = lsSet(r.w.store, FOCUS, entries)]
  IN IF ~r.ok THEN r.w
     ELSE IF ~IsArray(read) THEN Throw(r.w)
     ELSE Then(updateFocusCharts(w1, entries), "updateFocusTips", entries)

validateSkin(w, sleep, water, stress, condition) ==
  LET r0 == [w |-> w, ok |-> TRUE]
      r1 == check(r0, RangeBad(sleep, 0, 240), "skin-sleep-error", "Enter 0-24")
      r2 == check(r1, RangeBad(water, 0, 500), "skin-water-error", "Enter 0-50")
      r3 == check(r2, RangeBad(stress, 10, 100), "skin-stress-error", "Enter 1-10")
  IN check(r3, condition = "", "skin-condition-error", "Select a condition")

onSkinSubmit(w, form, today) ==
  LET sleep == parseFloat(form.sleep)
      water == parseFloat(form.water)
      stress == parseInt(form.stress)
      condition == form.condition
      r == validateSkin(w, sleep, water, stress, condition)
      read == lp(r.w.store, SKIN)
      entries == push(read, [date |-> today, sleep |-> sleep.v, water |-> water.v,
                             stress |-> stress.v, condition |-> condition])
      w1 == [r.w EXCEPT !.store = lsSet(r.w.store, SKIN, entries)]
  IN IF ~r.ok THEN r.w
     ELSE IF ~IsArray(read) THEN Throw(r.w)
     ELSE Then(updateSkinCharts(w1, entries), "updateSkinTips", entries)

validateMood(w, date, mood) ==
  LET r0 == [w |-> w, ok |-> TRUE]
      r1 == check(r0, date = "", "mood-date-error", "Select a date")
  IN check(r1, mood = "", "mood-value-error", "Select a mood")

onMoodSubmit(w, form) ==
  LET date == form.date
      mood == form.mood
      triggers == form.triggers
      r == validateMood(w, date, mood)
      read == lp(r.w.store, MOOD)
      entries == push(read, [date |-> date, mood |-> mood, triggers |-> triggers])
      w1 == [r.w EXCEPT !.store = lsSet(r.w.store, MOOD, entries)]
  IN IF ~r.ok THEN r.w
     ELSE IF ~IsArray(read) THEN Throw(r.w)
     ELSE Then(updateMoodCharts(w1, entries), "updateMoodTips", entries)

\* Mutant: the tips are not refreshed after the removal.
clearFocusData_staleTips(w, confirmed) ==
  IF confirmed
    THEN updateFocusCharts([w EXCEPT !.store = removeItem(w.store, FOCUS)], Array(<<>>))
    ELSE w

(* Clear functions (confirm) *)
clearFocusData(w, confirmed) ==
  IF confirmed
    THEN Then(updateFocusCharts([w EXCEPT !.store = removeItem(w.store, FOCUS)], Array(<<>>)),
              "updateFocusTips", Array(<<>>))
    ELSE w

clearSkinData(w, confirmed) ==
  IF confirmed
    THEN Then(updateSkinCharts([w EXCEPT !.store = removeItem(w.store, SKIN)], Array(<<>>)),
              "updateSkinTips", Array(<<>>))
    ELSE w

clearMoodData(w, confirmed) ==
  IF confirmed
    THEN Then(updateMoodCharts([w EXCEPT !.store = removeItem(w.store, MOOD)], Array(<<>>)),
              "updateMoodTips", Array(<<>>))
    ELSE w

\* The object exportData serialises into the download.
ExportSnapshot(store) ==
  [focus |-> lp(store, FOCUS), skin |-> lp(store, SKIN), mood |-> lp(store, MOOD)]

\* exportData reads the three logs and writes nothing the page keeps.
exportData(w) == w

loadAll(w) ==
  LET focusEntries == lp(w.store, FOCUS)
      skinEntries == lp(w.store, SKIN)
      moodEntries == lp(w.store, MOOD)
      w1 == updateFocusCharts(w, focusEntries)
      w2 == Then(w1, "updateSkinCharts", skinEntries)
      w3 == Then(w2, "updateMoodCharts", moodEntries)
      w4 == Then(w3, "updateFocusTips", focusEntries)
      w5 == Then(w4, "updateSkinTips", skinEntries)
      w6 == Then(w5, "updateMoodTips", moodEntries)
  IN Then(w6, "updateSummary", Array(<<>>))

\* The DOMContentLoaded callback on a freshly parsed document: the error
\* elements and the tips elements as the markup leaves them, the charts as
\* setupCharts creates them, then loadAll.  The handlers are registered
\* after loadAll returns.
BlankTips == [focus |-> TipList(<<>>), skin |-> TipList(<<>>), mood |-> TipList(<<>>)]

FreshPage(store) ==
  [store |-> store, errors |-> [id \in ErrorIds |-> ""], charts |-> setupCharts,
   tips |-> BlankTips, insights |-> <<>>, threw |-> FALSE]

DOMContentLoaded(store) == loadAll(FreshPage(store))

(* ------------------------------------------------------------------ *)
(* The state machine                                                    *)
(*                                                                      *)
(* localStorage, errors, charts, tips, insights: the world.             *)
(* page: "unloaded" (DOMContentLoaded has not run), "ready" (it ran and *)
(*   registered the handlers) or "broken" (it threw before registering  *)
(*   them, so no button of the page does anything).                     *)
(* uncaught: the last handler ended in an uncaught TypeError.           *)
(* last: the last event handled, with its inputs (the form's raw field  *)
(*   values, the clock's date, the answer given to confirm).            *)
(* before: localStorage as it was when that handler started.            *)
(* tabs: the tabs of SpecTabs, which share localStorage; no tab list is *)
(*   kept where the page is the only one open.                          *)
(* ------------------------------------------------------------------ *)

VARIABLES localStorage, errors, charts, tips, insights, page, uncaught, last, before,
          tabs

vars == <<localStorage, errors, charts, tips, insights, page, uncaught, last, before, tabs>>

World ==
  [store |-> localStorage, errors |-> errors, charts |-> charts, tips |-> tips,
   insights |-> insights, threw |-> FALSE]

Event(op, form, today, confirmed) ==
  [op |-> op, form |-> form, today |-> today, confirmed |-> confirmed]

Commit(w, event) ==
  /\ localStorage' = w.store
  /\ errors' = w.errors
  /\ charts' = w.charts
  /\ tips' = w.tips
  /\ insights' = w.insights
  /\ uncaught' = w.threw
  /\ last' = event
  /\ before' = localStorage
  /\ UNCHANGED tabs

Unloaded(store) ==
  /\ localStorage = store
  /\ errors = FreshPage(store).errors
  /\ charts = FreshPage(store).charts
  /\ tips = FreshPage(store).tips
  /\ insights = FreshPage(store).insights
  /\ page = "unloaded"
  /\ uncaught = FALSE
  /\ last = Event("none", <<>>, "", FALSE)
  /\ before = store
  /\ tabs = <<>>

\* A browser profile that has never stored anything for this origin.
Init == Unloaded([k \in LS_KEYS |-> Absent])

\* The page is (re)loaded: the document is parsed afresh and the
\* DOMContentLoaded callback runs against the stored data.
Load ==
  LET w == DOMContentLoaded(localStorage)
  IN /\ Commit(w, Event("DOMContentLoaded", <<>>, "", FALSE))
     /\ page' = IF w.threw THEN "broken" ELSE "ready"

FocusSubmit(form, today) ==
  /\ page = "ready"
  /\ Commit(onFocusSubmit(World, form, today), Event("onFocusSubmit", form, today, FALSE))
  /\ UNCHANGED page

SkinSubmit(form, today) ==
  /\ page = "ready"
  /\ Commit(onSkinSubmit(World, form, today), Event("onSkinSubmit", form, today, FALSE))
  /\ UNCHANGED page

MoodSubmit(form) ==
  /\ page = "ready"
  /\ Commit(onMoodSubmit(World, form), Event("onMoodSubmit", form, "", FALSE))
  /\ UNCHANGED page

ClearFocus(confirmed) ==
  /\ page = "ready"
  /\ Commit(clearFocusData(World, confirmed), Event("clearFocusData", <<>>, "", confirmed))
  /\ UNCHANGED page

ClearSkin(confirmed) ==
  /\ page = "ready"
  /\ Commit(clearSkinData(World, confirmed), Event("clearSkinData", <<>>, "", confirmed))
  /\ UNCHANGED page

ClearMood(confirmed) ==
  /\ page = "ready"
  /\ Commit(clearMoodData(World, confirmed), Event("clearMoodData", <<>>, "", confirmed))
  /\ UNCHANGED page

Export ==
  /\ page = "ready"
  /\ Commit(exportData(World), Event("exportData", <<>>, "", FALSE))
  /\ UNCHANGED page

\* Length of the log lp reads under key, and the entries stored in all.
LogLen(key) == Len(lp(localStorage, key).items)
TotalEntries == LogLen(FOCUS) + LogLen(SKIN) + LogLen(MOOD)

(* Inputs: raw field values as the user may leave them in the forms. *)

FocusForm(sleep, screen, exercise, rating) ==
  [sleep |-> sleep, screen |-> screen, exercise |-> exercise, rating |-> rating]
SkinForm(sleep, water, stress, condition) ==
  [sleep |-> sleep, water |-> water, stress |-> stress, condition |-> condition]
MoodForm(date, mood, triggers) == [date |-> date, mood |-> mood, triggers |-> triggers]

\* The two entries of the end-to-end focus scenario.
FocusA == FocusForm(<<"8">>, <<"3">>, <<"2", "5">>, <<"8">>)
FocusB == FocusForm(<<"5">>, <<"6">>, <<"1", "0">>, <<"4">>)

\* What todayDate() may return.
Days == {"2024-01-03"}

(* ------------------------------------------------------------------ *)
(* Spec: one tab, every handler, two acceptable forms and one rejected  *)
(* form of each kind, at most MaxEntries entries stored at any time.    *)
(* ------------------------------------------------------------------ *)

MaxEntries == 2

FocusForms ==
  {FocusA, FocusB, FocusForm(<<"8">>, <<"a", "b", "c">>, <<"2", "5">>, <<"1", "1">>)}

SkinForms ==
  {SkinForm(<<"8">>, <<"5">>, <<"3">>, "clear"),
   SkinForm(<<"7", ".", "5">>, <<"8">>, <<"7">>, "oily"),
   SkinForm(<<>>, <<"5">>, <<"0">>, "dry")}

MoodForms ==
  {MoodForm("2024-01-01", "happy", <<>>),
   MoodForm("2024-01-07", "angry", <<"exams">>),
   MoodForm("2024-01-01", "", <<"sleep">>)}

Next ==
  \/ Load
  \/ \E form \in FocusForms, today \in Days :
       FocusSubmit(form, today) /\ TotalEntries' <= MaxEntries
  \/ \E form \in SkinForms, today \in Days :
       SkinSubmit(form, today) /\ TotalEntries' <= MaxEntries
  \/ \E form \in MoodForms : MoodSubmit(form) /\ TotalEntries' <= MaxEntries
  \/ \E confirmed \in BOOLEAN : ClearFocus(confirmed)
  \/ \E confirmed \in BOOLEAN : ClearSkin(confirmed)
  \/ \E confirmed \in BOOLEAN : ClearMood(confirmed)
  \/ Export

Spec == Init /\ [][Next]_vars

(* ------------------------------------------------------------------ *)
(* SpecValidate: the three forms submitted with every combination of    *)
(* acceptable and unacceptable fields; at most MaxValidated entries     *)
(* stored.                                                              *)
(* ------------------------------------------------------------------ *)

MaxValidated == 0

ValidateFocusForms ==
  {FocusForm(sleep, screen, exercise, rating) :
     sleep \in {<<"8">>, <<"2", "4", ".", "5">>},
     screen \in {<<"3">>, <<"a", "b", "c">>},
     exercise \in {<<"6", "0", "0">>, <<"6", "0", "1">>},
     rating \in {<<"1">>, <<"0">>}}

ValidateSkinForms ==
  {SkinForm(sleep, water, stress, condition) :
     sleep \in {<<"0">>, <<"-", "1">>},
     water \in {<<"5", "0">>, <<>>},
     stress \in {<<"1", "0">>, <<"1", "1">>},
     condition \in {"irritated", ""}}

ValidateMoodForms ==
  {MoodForm(date, mood, <<>>) : date \in {"2024-01-01", ""}, mood \in {"calm", ""}}

NextValidate ==
  \/ Load
  \/ \E form \in ValidateFocusForms, today \in Days :
       FocusSubmit(form, today) /\ TotalEntries' <= MaxValidated
  \/ \E form \in ValidateSkinForms, today \in Days :
       SkinSubmit(form, today) /\ TotalEntries' <= MaxValidated
  \/ \E form \in ValidateMoodForms : MoodSubmit(form) /\ TotalEntries' <= MaxValidated

SpecValidate == Init /\ [][NextValidate]_vars

(* ------------------------------------------------------------------ *)
(* SpecCorrupt: the page is opened on a profile whose three items hold  *)
(* whatever an earlier version, another script of the origin or the     *)
(* user's developer tools left there.                                   *)
(* ------------------------------------------------------------------ *)

Item(kind) == [kind |-> kind, items |-> <<>>]

StoredFocus == [date |-> "2024-01-01", sleep |-> 80, screen |-> 30, exercise |-> 250, rating |-> 80]
StoredSkin == [date |-> "2024-01-01", sleep |-> 80, water |-> 50, stress |-> 30, condition |-> "clear"]
StoredMood == [date |-> "2024-01-01", mood |-> "happy", triggers |-> <<>>]

Contents(entry) ==
  {Absent, Item("empty"), Item("garbage"), Item("object"), Item("null"),
   [kind |-> "array", items |-> <<entry>>]}

InitCorrupt ==
  \E f \in Contents(StoredFocus), s \in Contents(StoredSkin), m \in Contents(StoredMood) :
    Unloaded([k \in LS_KEYS |-> IF k = FOCUS THEN f ELSE IF k = SKIN THEN s ELSE m])

NextCorrupt ==
  \/ Load
  \/ \E today \in Days : FocusSubmit(FocusA, today) /\ TotalEntries' <= MaxEntries
  \/ \E today \in Days :
       SkinSubmit(SkinForm(<<"8">>, <<"5">>, <<"3">>, "clear"), today)
         /\ TotalEntries' <= MaxEntries
  \/ MoodSubmit(MoodForm("2024-01-01", "happy", <<>>)) /\ TotalEntries' <= MaxEntries
  \/ \E confirmed \in BOOLEAN : ClearFocus(confirmed)
  \/ \E confirmed \in BOOLEAN : ClearSkin(confirmed)
  \/ \E confirmed \in BOOLEAN : ClearMood(confirmed)
  \/ Export

SpecCorrupt == InitCorrupt /\ [][NextCorrupt]_vars

(* ------------------------------------------------------------------ *)
(* SpecBuckets: focus entries whose hours of sleep lie on, between and  *)
(* beyond the bounds of the sleep buckets; at most MaxBucketEntries.    *)
(* ------------------------------------------------------------------ *)

MaxBucketEntries == 3

BucketSleeps ==
  {<<"0">>, <<"5">>, <<"6">>, <<"6", ".", "5">>, <<"7">>, <<"8">>, <<"9">>,
   <<"9", ".", "5">>, <<"2", "4">>}

NextBuckets ==
  \/ Load
  \/ \E sleep \in BucketSleeps, today \in Days :
       FocusSubmit(FocusForm(sleep, <<"3">>, <<"2", "5">>, <<"8">>), today)
         /\ TotalEntries' <= MaxBucketEntries
  \/ \E confirmed \in BOOLEAN : ClearFocus(confirmed)

SpecBuckets == Init /\ [][NextBuckets]_vars

(* ------------------------------------------------------------------ *)
(* SpecScenario: the end-to-end focus scenario; the two entries of the  *)
(* scenario in any order, at most MaxScenarioEntries of them.           *)
(* ------------------------------------------------------------------ *)

MaxScenarioEntries == 4

NextScenario ==
  \/ Load
  \/ \E form \in {FocusA, FocusB}, today \in Days :
       FocusSubmit(form, today) /\ TotalEntries' <= MaxScenarioEntries
  \/ \E confirmed \in BOOLEAN : ClearFocus(confirmed)
  \/ Export

SpecScenario == Init /\ [][NextScenario]_vars

(* ------------------------------------------------------------------ *)
(* SpecMood: mood entries of the four moods, at most MaxMoodEntries.    *)
(* ------------------------------------------------------------------ *)

MaxMoodEntries == 5

NextMood ==
  \/ Load
  \/ \E mood \in ChartMoods :
       MoodSubmit(MoodForm("2024-01-01", mood, <<>>)) /\ TotalEntries' <= MaxMoodEntries
  \/ ClearMood(TRUE)

SpecMood == Init /\ [][NextMood]_vars

(* ------------------------------------------------------------------ *)
(* SpecTabs: two tabs of the page on one origin.  localStorage is the   *)
(* only state they share; each tab has its own document.  The platform  *)
(* takes no lock around a getItem ... setItem sequence, so a storage    *)
(* access of one tab may fall between the lp and the lsSet of a submit  *)
(* running in the other: the focus submit is taken in two steps, up to  *)
(* and including entries.push, and from lsSet on.  The script registers *)
(* no storage listener, so a tab learns of the other's writes only when *)
(* one of its own handlers reads the store.                             *)
(* ------------------------------------------------------------------ *)

Tabs == {1, 2}

\* onFocusSubmit up to and including entries.push: the raw values are
\* parsed and validated, the log is read and the new entry is appended to
\* the array read.  [w, ok, entries]; entries is the handler's local array.
onFocusSubmitRead(w, form, today) ==
  LET sleep == parseFloat(form.sleep)
      screen == parseFloat(form.screen)
      exercise == parseFloat(form.exercise)
      rating == parseInt(form.rating)
      r == validateFocus(w, sleep, screen, exercise, rating)
      read == lp(r.w.store, FOCUS)
      entries == push(read, [date |-> today, sleep |-> sleep.v, screen |-> screen.v,
                             exercise |-> exercise.v, rating |-> rating.v])
  IN IF ~r.ok THEN [w |-> r.w, ok |-> FALSE, entries |-> Array(<<>>)]
     ELSE IF ~IsArray(read) THEN [w |-> Throw(r.w), ok |-> TRUE, entries |-> Array(<<>>)]
     ELSE [w |-> r.w, ok |-> TRUE, entries |-> entries]

\* Mutant: the log is read again and the new entry appended to what is
\* stored now.
onFocusSubmitWrite_merge(w, entries) ==
  LET merged == push(lp(w.store, FOCUS), entries.items[Len(entries.items)])
  IN Then(updateFocusCharts([w EXCEPT !.store = lsSet(w.store, FOCUS, merged)], merged),
          "updateFocusTips", merged)

\* onFocusSubmit from lsSet on: the local array is written back whole and
\* the visuals are updated from it.
onFocusSubmitWrite(w, entries) ==
  Then(updateFocusCharts([w EXCEPT !.store = lsSet(w.store, FOCUS, entries)], entries),
       "updateFocusTips", entries)

\* A tab: its document (errors, charts, tips, insights), whether its last
\* handler threw, where its submit handler stands ("idle": no handler is
\* running; "lsSet": the log was read and pushed to, lsSet is next), the
\* handler's local array, and the entries this tab has written with lsSet.
Tab(w, pc, entries, submitted) ==
  [errors |-> w.errors, charts |-> w.charts, tips |-> w.tips, insights |-> w.insights,
   uncaught |-> w.threw, pc |-> pc, entries |-> entries, submitted |-> submitted]

TabWorld(t) ==
  [store |-> localStorage, errors |-> tabs[t].errors, charts |-> tabs[t].charts,
   tips |-> tabs[t].tips, insights |-> tabs[t].insights, threw |-> FALSE]

\* Both tabs were opened on a profile that has stored nothing.
InitTabs ==
  /\ localStorage = [k \in LS_KEYS |-> Absent]
  /\ tabs = [t \in Tabs |->
               Tab(DOMContentLoaded([k \in LS_KEYS |-> Absent]), "idle", Array(<<>>), <<>>)]
  /\ errors = FreshPage(localStorage).errors
  /\ charts = FreshPage(localStorage).charts
  /\ tips = FreshPage(localStorage).tips
  /\ insights = FreshPage(localStorage).insights
  /\ page = "unloaded"
  /\ uncaught = FALSE
  /\ last = Event("none", <<>>, "", FALSE)
  /\ before = localStorage

OneTabOnly == UNCHANGED <<errors, charts, tips, insights, page, uncaught, last, before>>

\* Tab t is reloaded.
TabLoad(t) ==
  /\ tabs[t].pc = "idle"
  /\ tabs' = [tabs EXCEPT ![t] =
                Tab(DOMContentLoaded(localStorage), "idle", Array(<<>>), @.submitted)]
  /\ UNCHANGED localStorage
  /\ OneTabOnly

TabSubmitRead(t, form, today) ==
  /\ tabs[t].pc = "idle"
  /\ LET r == onFocusSubmitRead(TabWorld(t), form, today)
     IN tabs' = [tabs EXCEPT ![t] =
                   Tab(r.w, IF r.ok /\ ~r.w.threw THEN "lsSet" ELSE "idle", r.entries,
                       @.submitted)]
  /\ UNCHANGED localStorage
  /\ OneTabOnly

TabSubmitWrite(t) ==
  /\ tabs[t].pc = "lsSet"
  /\ LET w == onFocusSubmitWrite(TabWorld(t), tabs[t].entries)
         entry == tabs[t].entries.items[Len(tabs[t].entries.items)]
     IN /\ localStorage' = w.store
        /\ tabs' = [tabs EXCEPT ![t] =
                      Tab(w, "idle", Array(<<>>), Append(@.submitted, entry))]
  /\ OneTabOnly

\* Submits begun in all tabs since they were opened.
TabSubmits ==
  LET n(t) == Len(tabs[t].submitted) + (IF tabs[t].pc = "lsSet" THEN 1 ELSE 0)
  IN n(1) + n(2)

MaxTabSubmits == 3

TabForms == {FocusA, FocusB, FocusForm(<<"8">>, <<>>, <<"2", "5">>, <<"8">>)}

NextTabs ==
  \/ \E t \in Tabs : TabLoad(t)
  \/ \E t \in Tabs, form \in TabForms, today \in Days :
       TabSubmitRead(t, form, today) /\ TabSubmits' <= MaxTabSubmits
  \/ \E t \in Tabs : TabSubmitWrite(t)

SpecTabs == InitTabs /\ [][NextTabs]_vars

(* ------------------------------------------------------------------ *)
(* SpecTips: entries of the three categories whose values fall on every *)
(* side of the tip rules: sleep below, inside and above the 7-9 band,   *)
(* water below, at and above 6 glasses, each of the four moods; at most *)
(* MaxTipEntries entries stored at any time.                            *)
(* ------------------------------------------------------------------ *)

MaxTipEntries == 3

TipSleeps == {<<"5">>, <<"8">>, <<"1", "0">>}

TipWaters == {<<"4">>, <<"6">>, <<"8">>}

NextTips ==
  \/ Load
  \/ \E sleep \in TipSleeps, today \in Days :
       FocusSubmit(FocusForm(sleep, <<"3">>, <<"2", "5">>, <<"8">>), today)
         /\ TotalEntries' <= MaxTipEntries
  \/ \E water \in TipWaters, today \in Days :
       SkinSubmit(SkinForm(<<"8">>, water, <<"3">>, "clear"), today)
         /\ TotalEntries' <= MaxTipEntries
  \/ \E mood \in ChartMoods :
       MoodSubmit(MoodForm("2024-01-01", mood, <<>>)) /\ TotalEntries' <= MaxTipEntries
  \/ ClearFocus(TRUE)
  \/ ClearSkin(TRUE)
  \/ ClearMood(TRUE)

SpecTips == Init /\ [][NextTips]_vars

(* ------------------------------------------------------------------ *)
(* Properties                                                           *)
(* ------------------------------------------------------------------ *)

Log(key) == lp(localStorage, key).items
LogBefore(key) == lp(before, key).items

\* A raw numeric field is invalid when it does not parse or lies outside
\* the closed interval [lo, hi] (in tenths).
OutOfRange(x, lo, hi) == x.nan \/ ~(lo <= x.v /\ x.v <= hi)

FocusFieldInvalid(form) ==
  [sleep |-> OutOfRange(parseFloat(form.sleep), 0, 240),
   screen |-> OutOfRange(parseFloat(form.screen), 0, 240),
   exercise |-> OutOfRange(parseFloat(form.exercise), 0, 6000),
   rating |-> OutOfRange(parseInt(form.rating), 10, 100)]

SkinFieldInvalid(form) ==
  [sleep |-> OutOfRange(parseFloat(form.sleep), 0, 240),
   water |-> OutOfRange(parseFloat(form.water), 0, 500),
   stress |-> OutOfRange(parseInt(form.stress), 10, 100),
   condition |-> form.condition = ""]

MoodFieldInvalid(form) == [date |-> form.date = "", value |-> form.mood = ""]

AnyInvalid(inv) == \E f \in DOMAIN inv : inv[f]

\* The last event was a submission of the form of this category.
Submitted(op) == last.op = op
FullyValid ==
  CASE last.op = "onFocusSubmit" -> ~AnyInvalid(FocusFieldInvalid(last.form))
    [] last.op = "onSkinSubmit" -> ~AnyInvalid(SkinFieldInvalid(last.form))
    [] last.op = "onMoodSubmit" -> ~AnyInvalid(MoodFieldInvalid(last.form))
    [] OTHER -> FALSE

\* The entry a fully valid submission asks to store.
SubmittedEntry ==
  CASE last.op = "onFocusSubmit" ->
         [date |-> last.today, sleep |-> parseFloat(last.form.sleep).v,
          screen |-> parseFloat(last.form.screen).v,
          exercise |-> parseFloat(last.form.exercise).v,
          rating |-> parseInt(last.form.rating).v]
    [] last.op = "onSkinSubmit" ->
         [date |-> last.today, sleep |-> parseFloat(last.form.sleep).v,
          water |-> parseFloat(last.form.water).v,
          stress |-> parseInt(last.form.stress).v,
          condition |-> last.form.condition]
    [] last.op = "onMoodSubmit" ->
         [date |-> last.form.date, mood |-> last.form.mood,
          triggers |-> last.form.triggers]

SubmitKey ==
  CASE last.op = "onFocusSubmit" -> FOCUS
    [] last.op = "onSkinSubmit" -> SKIN
    [] last.op = "onMoodSubmit" -> MOOD

ClearKey ==
  CASE last.op = "clearFocusData" -> FOCUS
    [] last.op = "clearSkinData" -> SKIN
    [] last.op = "clearMoodData" -> MOOD

IsSubmit == last.op \in {"onFocusSubmit", "onSkinSubmit", "onMoodSubmit"}
IsClear == last.op \in {"clearFocusData", "clearSkinData", "clearMoodData"}

FocusEntryWithinBounds(e) ==
  /\ 0 <= e.sleep /\ e.sleep <= 240
  /\ 0 <= e.screen /\ e.screen <= 240
  /\ 0 <= e.exercise /\ e.exercise <= 6000
  /\ 10 <= e.rating /\ e.rating <= 100 /\ e.rating % 10 = 0

SkinNumbersWithinBounds(e) ==
  /\ 0 <= e.sleep /\ e.sleep <= 240
  /\ 0 <= e.water /\ e.water <= 500
  /\ 10 <= e.stress /\ e.stress <= 100 /\ e.stress % 10 = 0

\* C1: every entry held in the persisted logs satisfies its category's
\* bounds: focus sleep and screen in [0,24], exercise in [0,600], rating an
\* integer in [1,10]; skin sleep in [0,24], water in [0,50], stress an
\* integer in [1,10], condition one of clear, dry, irritated; mood one of
\* happy, calm, stressed, tired.
C1_EntriesWithinBounds ==
  /\ \A i \in 1..Len(Log(FOCUS)) : FocusEntryWithinBounds(Log(FOCUS)[i])
  /\ \A i \in 1..Len(Log(SKIN)) :
       /\ SkinNumbersWithinBounds(Log(SKIN)[i])
       /\ Log(SKIN)[i].condition \in {"clear", "dry", "irritated"}
  /\ \A i \in 1..Len(Log(MOOD)) : Log(MOOD)[i].mood \in ChartMoods

\* What the handlers do enforce: the numeric bounds, and a categorical
\* field that is not empty.
NumbersWithinBounds ==
  /\ \A i \in 1..Len(Log(FOCUS)) : FocusEntryWithinBounds(Log(FOCUS)[i])
  /\ \A i \in 1..Len(Log(SKIN)) :
       SkinNumbersWithinBounds(Log(SKIN)[i]) /\ Log(SKIN)[i].condition # ""
  /\ \A i \in 1..Len(Log(MOOD)) : Log(MOOD)[i].mood # "" /\ Log(MOOD)[i].date # ""

\* C2: after a fully valid submission the log read back is the log read
\* before the submission with the submitted entry appended: one longer,
\* the entry last, the prior entries unchanged and in their order (an
\* entry equal to a stored one is stored again).
C2_AppendThenReadAll ==
  (IsSubmit /\ FullyValid) =>
    /\ Len(Log(SubmitKey)) = Len(LogBefore(SubmitKey)) + 1
    /\ Log(SubmitKey)[Len(Log(SubmitKey))] = SubmittedEntry
    /\ SubSeq(Log(SubmitKey), 1, Len(LogBefore(SubmitKey))) = LogBefore(SubmitKey)

\* A duplicate was just appended to a log that is different from it in
\* no way: both elements are kept.
C2_Witness ==
  /\ Submitted("onFocusSubmit") /\ FullyValid
  /\ Len(Log(FOCUS)) = 2
  /\ Log(FOCUS)[1] = Log(FOCUS)[2]
  /\ Log(FOCUS)[2] = SubmittedEntry

\* Shape of an error display: which of the fields show a message.
Shown(ids) == [f \in DOMAIN ids |-> errors[ids[f]] # ""]

FocusErrorIds ==
  [sleep |-> "focus-sleep-error", screen |-> "focus-screen-error",
   exercise |-> "focus-exercise-error", rating |-> "focus-rating-error"]
SkinErrorIds ==
  [sleep |-> "skin-sleep-error", water |-> "skin-water-error",
   stress |-> "skin-stress-error", condition |-> "skin-condition-error"]
MoodErrorIds == [date |-> "mood-date-error", value |-> "mood-value-error"]

\* C3: after a submission with at least one invalid field, every invalid
\* field of the form shows a non-empty message and every valid field shows
\* the empty message, whichever and however many fields fail.
C3_EveryFieldReported ==
  /\ (Submitted("onFocusSubmit") /\ AnyInvalid(FocusFieldInvalid(last.form)))
       => Shown(FocusErrorIds) = FocusFieldInvalid(last.form)
  /\ (Submitted("onSkinSubmit") /\ AnyInvalid(SkinFieldInvalid(last.form)))
       => Shown(SkinErrorIds) = SkinFieldInvalid(last.form)
  /\ (Submitted("onMoodSubmit") /\ AnyInvalid(MoodFieldInvalid(last.form)))
       => Shown(MoodErrorIds) = MoodFieldInvalid(last.form)

\* A skin submission whose first and third fields fail and whose second
\* and fourth do not, made while the second field still showed the
\* message of an earlier submission.
C3_Witness ==
  /\ Submitted("onSkinSubmit")
  /\ SkinFieldInvalid(last.form) =
       [sleep |-> TRUE, water |-> FALSE, stress |-> TRUE, condition |-> FALSE]
  /\ errors["skin-sleep-error"] = "Enter 0-24"
  /\ errors["skin-water-error"] = ""
  /\ errors["skin-stress-error"] = "Enter 1-10"
  /\ errors["skin-condition-error"] = ""
  /\ errors["focus-rating-error"] = "Enter 1-10"

\* C4: the persisted items are left as they were by a submission with an
\* invalid field, by a declined clear and by exportData; an item changes
\* only through a fully valid submission or a confirmed clear of its own
\* category.
C4_LogsChangeOnlyByValidSubmitOrConfirmedClear ==
  /\ (IsSubmit /\ ~FullyValid) => localStorage = before
  /\ (IsClear /\ ~last.confirmed) => localStorage = before
  /\ last.op = "exportData" => localStorage = before
  /\ \A key \in LS_KEYS :
       localStorage[key] # before[key] =>
         \/ IsSubmit /\ FullyValid /\ SubmitKey = key
         \/ IsClear /\ last.confirmed /\ ClearKey = key

\* A form with an invalid field was submitted while its log held entries.
C4_Witness ==
  /\ Submitted("onFocusSubmit") /\ ~FullyValid
  /\ Len(Log(FOCUS)) > 0 /\ Len(Log(SKIN)) > 0
  /\ localStorage = before

\* C6: after a confirmed clear the log of the category reads back empty
\* and the items of the other two categories are as they were.
C6_ConfirmedClearEmptiesOnlyItsLog ==
  (IsClear /\ last.confirmed) =>
    /\ Log(ClearKey) = <<>>
    /\ \A key \in LS_KEYS \ {ClearKey} : localStorage[key] = before[key]

\* A confirmed clear of a log that held entries, beside another that does.
C6_Witness ==
  /\ last.op = "clearFocusData" /\ last.confirmed
  /\ Len(LogBefore(FOCUS)) > 0
  /\ Log(FOCUS) = <<>>
  /\ Len(Log(SKIN)) > 0

InsightIndex(key) == CASE key = FOCUS -> 1 [] key = SKIN -> 2 [] key = MOOD -> 3
NoInsight(key) ==
  CASE key = FOCUS -> Sentence(INSIGHT_FOCUS_NONE, 0, "")
    [] key = SKIN -> Sentence(INSIGHT_SKIN_NONE, 0, "")
    [] key = MOOD -> Sentence(INSIGHT_MOOD_NONE, 0, "")
TipsOf(key) == CASE key = FOCUS -> tips.focus [] key = SKIN -> tips.skin [] key = MOOD -> tips.mood
NoDataTips(key) ==
  CASE key = FOCUS -> NoData(FOCUS_NODATA)
    [] key = SKIN -> NoData(SKIN_NODATA)
    [] key = MOOD -> NoData(MOOD_NODATA)

\* C9: on the loaded page, whenever the log of a category is empty its
\* tips are the fixed no-data message with no list item and its sentence
\* of the summary is the no-data sentence (so with three empty logs all
\* three sentences are).
C9_EmptyLogShowsNoData ==
  page = "ready" =>
    \A key \in LS_KEYS :
      Log(key) = <<>> =>
        /\ TipsOf(key) = NoDataTips(key)
        /\ insights[InsightIndex(key)] = NoInsight(key)

\* The focus log was just cleared, having held entries, while the skin log
\* holds some.
C9_Witness ==
  /\ page = "ready"
  /\ last.op = "clearFocusData" /\ last.confirmed
  /\ Len(LogBefore(FOCUS)) > 0
  /\ tips.focus = NoData(FOCUS_NODATA)
  /\ insights[1] = Sentence(INSIGHT_FOCUS_NONE, 0, "")
  /\ insights[2] # Sentence(INSIGHT_SKIN_NONE, 0, "")

\* Nothing stored and the page just loaded: three no-data sentences.
C9_WitnessLoad ==
  /\ page = "ready" /\ last.op = "DOMContentLoaded"
  /\ \A key \in LS_KEYS : Log(key) = <<>>
  /\ insights = <<NoInsight(FOCUS), NoInsight(SKIN), NoInsight(MOOD)>>

\* C5: whatever the three items hold, once the page has been opened lp
\* yields an array for every key and no handler has ended in an uncaught
\* error: the page is ready and at worst shows a log as empty.
C5_CorruptStoreNeverCrashes ==
  page # "unloaded" =>
    /\ \A key \in LS_KEYS : IsArray(lp(localStorage, key))
    /\ ~uncaught
    /\ page = "ready"

\* What does hold: text that JSON.parse rejects, the empty string and a
\* missing item read as the empty log, and the page loads.
UnparseableReadsAsEmpty ==
  (page # "unloaded" /\ \A key \in LS_KEYS : localStorage[key].kind \notin {"object", "null"})
    => /\ ~uncaught /\ page = "ready"
       /\ \A key \in LS_KEYS :
            localStorage[key].kind \in {"absent", "empty", "garbage"} => Log(key) = <<>>

\* The bucket the convention "closed above, open below" gives hours h.
BucketOf(h) == IF h <= 60 THEN 1 ELSE IF h <= 70 THEN 2 ELSE IF h <= 90 THEN 3 ELSE 4

\* C7: every focus entry is counted in exactly one of the four buckets,
\* the one whose bounds hold it with the upper bound closed (6 in "<=6",
\* 7 in "6-7", 9 in "7-9"), so the counts sum to the number of entries;
\* the chart shows a bucket as non-zero exactly when it has a member.
C7_EachEntryInExactlyOneBucket ==
  LET buckets == SleepBuckets(Log(FOCUS))
  IN /\ \A k \in 1..4 :
          buckets[k].n =
            Cardinality({i \in 1..Len(Log(FOCUS)) : BucketOf(Log(FOCUS)[i].sleep) = k})
     /\ SumSeq([k \in 1..4 |-> buckets[k].n]) = Len(Log(FOCUS))
     /\ \A i \in 1..Len(Log(FOCUS)) :
          Cardinality({k \in 1..4 : InBucket(Log(FOCUS)[i], BucketDefs[k])}) = 1
     /\ (page = "ready" /\ ~uncaught) =>
          \A k \in 1..4 : (charts.summarySleep.data[k] # 0) <=> (buckets[k].n > 0)

\* Entries of exactly 6, 7 and 9 hours are stored and the summary shows
\* the first three buckets and not the fourth.
C7_Witness ==
  /\ page = "ready"
  /\ {Log(FOCUS)[i].sleep : i \in 1..Len(Log(FOCUS))} = {60, 70, 90}
  /\ charts.summarySleep.data = <<800, 800, 800, 0>>

EntryA == [date |-> "2024-01-03", sleep |-> 80, screen |-> 30, exercise |-> 250, rating |-> 80]
EntryB == [date |-> "2024-01-03", sleep |-> 50, screen |-> 60, exercise |-> 100, rating |-> 40]

InTips(tip, shown) == \E i \in 1..Len(shown.items) : shown.items[i] = tip

\* C8 as stated: after entry A three times the focus tips hold the
\* positive sleep message; after entry B is added the tips hold the
\* "increase sleep" message instead of the positive one.
C8_FourthEntryTurnsTipToIncreaseSleep ==
  /\ (page = "ready" /\ Log(FOCUS) = <<EntryA, EntryA, EntryA>>)
       => InTips(TIP_SLEEP_OK, tips.focus)
  /\ (page = "ready" /\ Log(FOCUS) = <<EntryA, EntryA, EntryA, EntryB>>)
       => InTips(TIP_SLEEP_LOW, tips.focus) /\ ~InTips(TIP_SLEEP_OK, tips.focus)

\* C8 as the script has it: after entry A three times the focus tips hold
\* the positive sleep message; after entry B is added the average sleep is
\* 29/4 = 7.25 hours, still within 7 to 9, and the tips still hold the
\* positive message and not the "increase sleep" message (nor any other).
C8_FourthEntryKeepsPositiveTip ==
  /\ (page = "ready" /\ Log(FOCUS) = <<EntryA, EntryA, EntryA>>)
       => InTips(TIP_SLEEP_OK, tips.focus)
  /\ (page = "ready" /\ Log(FOCUS) = <<EntryA, EntryA, EntryA, EntryB>>)
       => /\ InTips(TIP_SLEEP_OK, tips.focus) /\ ~InTips(TIP_SLEEP_LOW, tips.focus)
          /\ tips.focus = TipList(<<TIP_SLEEP_OK>>)

\* The scenario has run: A, A, A, B submitted in this order.
C8_Witness ==
  /\ page = "ready"
  /\ Submitted("onFocusSubmit") /\ last.form = FocusB
  /\ Log(FOCUS) = <<EntryA, EntryA, EntryA, EntryB>>

Moods(log) == [i \in 1..Len(log) |-> log[i].mood]
Occurrences(log, mood) == Cardinality({i \in 1..Len(log) : log[i].mood = mood})

\* The messages in the fixed order coping, tiredness, reinforcement, each
\* kept when its own condition holds.
ExpectedMoodTips(log) ==
  LET happy == Occurrences(log, "happy")
      calm == Occurrences(log, "calm")
      stressed == Occurrences(log, "stressed")
      tired == Occurrences(log, "tired")
  IN (IF stressed > happy THEN <<TIP_COPING>> ELSE <<>>)
       \o (IF tired > 0 THEN <<TIP_TIRED>> ELSE <<>>)
       \o (IF happy >= calm /\ happy >= stressed /\ happy >= tired
             THEN <<TIP_HAPPY>> ELSE <<>>)

\* C10: for a mood log that is not empty the mood tips are exactly the
\* messages whose condition holds, in the order coping, tiredness,
\* reinforcement; for happy, happy, stressed, tired, tired the summary names
\* happy as the most recorded mood and the tips hold the tiredness and the
\* reinforcement message.
C10_MoodTipsAreTheApplicableOnes ==
  (page = "ready" /\ Log(MOOD) # <<>>) =>
    /\ tips.mood = TipList(ExpectedMoodTips(Log(MOOD)))
    /\ Moods(Log(MOOD)) = <<"happy", "happy", "stressed", "tired", "tired">> =>
         /\ insights[3] = Sentence(INSIGHT_MOOD_TOP, 0, "happy")
         /\ InTips(TIP_TIRED, tips.mood) /\ InTips(TIP_HAPPY, tips.mood)

\* The five entries of the scenario have been submitted in order.
C10_Witness ==
  /\ page = "ready"
  /\ Submitted("onMoodSubmit")
  /\ Moods(Log(MOOD)) = <<"happy", "happy", "stressed", "tired", "tired">>
  /\ tips.mood = TipList(<<TIP_TIRED, TIP_HAPPY>>)


\* What tab t read when its pending submit began, and the entry it pushed.
TabRead(t) == SubSeq(tabs[t].entries.items, 1, Len(tabs[t].entries.items) - 1)
TabEntry(t) == tabs[t].entries.items[Len(tabs[t].entries.items)]

\* The entry tab t wrote last.
TabLast(t) == tabs[t].submitted[Len(tabs[t].submitted)]

TabErrorsBlank(tab) == \A id \in ErrorIds : tab.errors[id] = ""

\* Tab t completes the write of its pending submit in this step.
TabWrites(t) == tabs[t].pc = "lsSet" /\ tabs'[t].pc = "idle"

\* C11: while only one tab writes, the focus log is exactly the entries it
\* has submitted, in order: no submitted entry is lost.  With two tabs, a
\* submit writes back the array it read plus its own entry, whatever is
\* stored by then: when the log has not changed since the read the entry is
\* appended to it; when it has changed, the log ends up with fewer entries
\* than were submitted; and when the other tab wrote its entry onto the same
\* read (both read before either wrote), the later write puts its own entry
\* in the place of the earlier one.  The writer shows no error and throws
\* nothing, and the other tab is told nothing.
C11_LastWriterOverwrites ==
  [][\A t \in Tabs :
       LET u == 3 - t
       IN /\ tabs'[u].submitted = <<>> => Log(FOCUS)' = tabs'[t].submitted
          /\ TabWrites(t) =>
               /\ Log(FOCUS)' = Append(TabRead(t), TabEntry(t))
               /\ Log(FOCUS) = TabRead(t) => Log(FOCUS)' = Append(Log(FOCUS), TabEntry(t))
               /\ Log(FOCUS) # TabRead(t) =>
                    Len(Log(FOCUS)') < Len(tabs'[1].submitted) + Len(tabs'[2].submitted)
               /\ (/\ tabs[u].submitted # <<>>
                   /\ Log(FOCUS) = Append(TabRead(t), TabLast(u))) =>
                    /\ Log(FOCUS)' = Append(TabRead(t), TabEntry(t))
                    /\ Len(Log(FOCUS)') = Len(Log(FOCUS))
               /\ TabErrorsBlank(tabs'[t])
               /\ ~tabs'[t].uncaught
               /\ tabs'[u] = tabs[u]]_vars

\* Both tabs read the empty log before either wrote; tab 1 wrote entry A,
\* then tab 2 wrote entry B: two submits were accepted, the log holds B only.
C11_Witness ==
  /\ tabs # <<>>
  /\ tabs[1].pc = "idle" /\ tabs[2].pc = "idle"
  /\ tabs[1].submitted = <<EntryA>>
  /\ tabs[2].submitted = <<EntryB>>
  /\ Log(FOCUS) = <<EntryB>>
  /\ TabErrorsBlank(tabs[1]) /\ TabErrorsBlank(tabs[2])
  /\ ~tabs[1].uncaught /\ ~tabs[2].uncaught

\* What the page shows of the logs: every chart's series, the three tips
\* lists and the insight sentences.
Displayed == [charts |-> charts, tips |-> tips, insights |-> insights]

\* What the aggregation functions yield on the logs stored now: the series
\* updateFocusCharts, updateSkinCharts and updateMoodCharts draw and the tips
\* updateFocusTips, updateSkinTips and updateMoodTips list, each from its
\* category's stored log, and the summary updateSummary computes from the
\* three stored logs.
Aggregated ==
  LET blank == FreshPage(localStorage)
      c1 == updateFocusCharts(blank, lp(localStorage, FOCUS)).charts
      c2 == updateSkinCharts(blank, lp(localStorage, SKIN)).charts
      c3 == updateMoodCharts(blank, lp(localStorage, MOOD)).charts
      sum == updateSummary(blank)
  IN [charts |-> [sleepFocus |-> c1.sleepFocus, screenFocus |-> c1.screenFocus,
                  waterSkin |-> c2.waterSkin, stressSkin |-> c2.stressSkin,
                  moodTrend |-> c3.moodTrend,
                  summarySleep |-> sum.charts.summarySleep,
                  summarySkin |-> sum.charts.summarySkin],
      tips |-> [focus |-> updateFocusTips(blank, lp(localStorage, FOCUS)).tips.focus,
                skin |-> updateSkinTips(blank, lp(localStorage, SKIN)).tips.skin,
                mood |-> updateMoodTips(blank, lp(localStorage, MOOD)).tips.mood],
      insights |-> sum.insights]

\* C12: once the page has loaded, after the load and after every handler
\* (accepted or rejected submit, confirmed or declined clear, export) the
\* charts, tips and summary shown are the ones the aggregation functions
\* yield on the logs stored at that moment.
C12_DisplayMatchesStoredLogs == page = "ready" => Displayed = Aggregated

\* A focus entry has just been accepted while a skin entry is stored: the
\* scatter charts, the focus tips and the summary show both.
C12_Witness ==
  /\ page = "ready"
  /\ Submitted("onFocusSubmit") /\ FullyValid
  /\ Len(Log(FOCUS)) = 1 /\ Len(Log(SKIN)) = 1
  /\ Len(charts.sleepFocus) = 1
  /\ insights # DOMContentLoaded([k \in LS_KEYS |-> Absent]).insights
  /\ tips.focus # NoData(FOCUS_NODATA)

\* How many of the listed tips are among msgs.
HowMany(shown, msgs) == Cardinality({i \in 1..Len(shown.items) : shown.items[i] \in msgs})

SleepBandTips == {TIP_SLEEP_OK, TIP_SLEEP_LOW, TIP_SLEEP_HIGH}
WaterTips == {TIP_WATER_OK, TIP_WATER_LOW}

FocusTipsHaveOneSleepBand ==
  Log(FOCUS) # <<>> => tips.focus.text = "" /\ HowMany(tips.focus, SleepBandTips) = 1

SkinTipsHaveOneWater ==
  Log(SKIN) # <<>> => tips.skin.text = "" /\ HowMany(tips.skin, WaterTips) = 1

\* C13 as stated: for a non-empty log the focus tips hold exactly one
\* sleep-band message, the skin tips exactly one water message, and the
\* mood tips are never empty.
C13_MoodTipsNeverEmpty ==
  page = "ready" =>
    /\ FocusTipsHaveOneSleepBand
    /\ SkinTipsHaveOneWater
    /\ Log(MOOD) # <<>> => tips.mood.items # <<>>

\* C13, amended: for a non-empty log the focus tips hold exactly one
\* sleep-band message and the skin tips exactly one water message; the mood
\* tips of a non-empty log are an empty list exactly when no entry is tired
\* and stressed <= happy < calm, and hold at least one message otherwise.
C13_MoodTipsEmptyOnlyWhenCalmLeads ==
  page = "ready" =>
    /\ FocusTipsHaveOneSleepBand
    /\ SkinTipsHaveOneWater
    /\ Log(MOOD) # <<>> =>
         /\ tips.mood.text = ""
         /\ tips.mood.items = <<>> <=>
              /\ MoodCount(Log(MOOD), "tired") = 0
              /\ MoodCount(Log(MOOD), "stressed") <= MoodCount(Log(MOOD), "happy")
              /\ MoodCount(Log(MOOD), "happy") < MoodCount(Log(MOOD), "calm")

\* A focus entry, a skin entry and a calm mood entry are stored: the focus
\* and skin tips hold their message, the mood tips hold none.
C13_Witness ==
  /\ page = "ready"
  /\ Len(Log(FOCUS)) = 1 /\ Len(Log(SKIN)) = 1
  /\ Moods(Log(MOOD)) = <<"calm">>
  /\ HowMany(tips.focus, SleepBandTips) = 1
  /\ HowMany(tips.skin, WaterTips) = 1
  /\ tips.mood = TipList(<<>>)

=========================================================================
